---- MODULE Spec2Model ----
(***************************************************************************)
(* Model of embedded-hal's digital::v2 pin traits (src/digital/v2.rs):     *)
(* OutputPin, StatefulOutputPin, and the software toggle() that the        *)
(* toggleable module derives for every pin that opts in.                   *)
(*                                                                         *)
(* A pin is the `state: bool` of the documented software pin MyPin.  Two   *)
(* pins exist side by side.  Each pin's associated Error type is either    *)
(* Infallible (MyPin) or a driver error type with the values Errs; a       *)
(* fallible driver call may return Err(e), and such a failing call leaves  *)
(* the commanded state as it was.                                          *)
(***************************************************************************)
EXTENDS Naturals, Sequences, FiniteSets

VARIABLES state, fallible, init, hist, last

vars == <<state, fallible, init, hist, last>>

\* Number of &mut self calls (set_low, set_high, toggle) explored when one
\* pin exists, and when two pins exist side by side.
MaxOps == 4

MaxPairOps == 2

Pins == {"p1", "p2"}

\* Values of a fallible driver's associated Error type.
Errs == {"E1", "E2"}

\* What the driver does on one trait call: work (NoFault) or fail with e.
NoFault == "none"

\* The value of type ().
Unit == "()"

Ok(v) == [tag |-> "Ok", val |-> v]

Err(e) == [tag |-> "Err", err |-> e]

IsOk(r) == r.tag = "Ok"

IsErr(r) == r.tag = "Err"

\* The failures a pin's Error type admits: none when Error = Infallible.
Faults(isFallible) == IF isFallible THEN {NoFault} \cup Errs ELSE {NoFault}

(***************************************************************************)
(* OutputPin and StatefulOutputPin, as MyPin implements them; s is the     *)
(* field `state`, f the outcome the driver produces for this call.         *)
(***************************************************************************)
set_low(s, f) ==
    IF f = NoFault
    THEN [state |-> FALSE, res |-> Ok(Unit)]
    ELSE [state |-> s, res |-> Err(f)]

\* Faulty variant of set_high: stores the wrong level.
set_high_stores_low(s, f) ==
    IF f = NoFault
    THEN [state |-> FALSE, res |-> Ok(Unit)]
    ELSE [state |-> s, res |-> Err(f)]

set_high(s, f) ==
    IF f = NoFault
    THEN [state |-> TRUE, res |-> Ok(Unit)]
    ELSE [state |-> s, res |-> Err(f)]

is_set_low(s, f) == IF f = NoFault THEN Ok(~s) ELSE Err(f)

is_set_high(s, f) == IF f = NoFault THEN Ok(s) ELSE Err(f)

Call(fn, r) == [fn |-> fn, res |-> r]

(***************************************************************************)
(* toggleable::toggle.  rd is the driver's outcome for the is_set_low()    *)
(* call, wr its outcome for the write that follows.  The result carries    *)
(* the new field value, the value toggle() returns and the trait calls it  *)
(* made, in order, each with what it returned.                             *)
(***************************************************************************)
\* Faulty variants of toggle, each a slip the properties below detect:
\* the branches swapped; the read's value unused; the read's error treated
\* as "low"; a failed write retried; the write's error dropped; an error
\* of toggle's own; a read-back after the write.
toggle_swapped_branches(s, rd, wr) ==
    LET r == is_set_low(s, rd) IN
    IF IsErr(r)
    THEN [state |-> s, res |-> r, calls |-> <<Call("is_set_low", r)>>]
    ELSE IF r.val
         THEN LET w == set_low(s, wr) IN
              [state |-> w.state, res |-> w.res,
               calls |-> <<Call("is_set_low", r), Call("set_low", w.res)>>]
         ELSE LET w == set_high(s, wr) IN
              [state |-> w.state, res |-> w.res,
               calls |-> <<Call("is_set_low", r), Call("set_high", w.res)>>]

toggle_always_high(s, rd, wr) ==
    LET r == is_set_low(s, rd) IN
    IF IsErr(r)
    THEN [state |-> s, res |-> r, calls |-> <<Call("is_set_low", r)>>]
    ELSE LET w == set_high(s, wr) IN
         [state |-> w.state, res |-> w.res,
          calls |-> <<Call("is_set_low", r), Call("set_high", w.res)>>]

toggle_read_error_ignored(s, rd, wr) ==
    LET r == is_set_low(s, rd)
        low == IF IsErr(r) THEN TRUE ELSE r.val
    IN  IF low
        THEN LET w == set_high(s, wr) IN
             [state |-> w.state, res |-> w.res,
              calls |-> <<Call("is_set_low", r), Call("set_high", w.res)>>]
        ELSE LET w == set_low(s, wr) IN
             [state |-> w.state, res |-> w.res,
              calls |-> <<Call("is_set_low", r), Call("set_low", w.res)>>]

toggle_retry_write(s, rd, wr) ==
    LET r == is_set_low(s, rd) IN
    IF IsErr(r)
    THEN [state |-> s, res |-> r, calls |-> <<Call("is_set_low", r)>>]
    ELSE LET fn == IF r.val THEN "set_high" ELSE "set_low"
             w1 == IF r.val THEN set_high(s, wr) ELSE set_low(s, wr)
             w2 == IF r.val THEN set_high(w1.state, NoFault)
                            ELSE set_low(w1.state, NoFault)
         IN  IF IsOk(w1.res)
             THEN [state |-> w1.state, res |-> w1.res,
                   calls |-> <<Call("is_set_low", r), Call(fn, w1.res)>>]
             ELSE [state |-> w2.state, res |-> w2.res,
                   calls |-> <<Call("is_set_low", r), Call(fn, w1.res),
                               Call(fn, w2.res)>>]

toggle_write_error_dropped(s, rd, wr) ==
    LET r == is_set_low(s, rd) IN
    IF IsErr(r)
    THEN [state |-> s, res |-> r, calls |-> <<Call("is_set_low", r)>>]
    ELSE LET fn == IF r.val THEN "set_high" ELSE "set_low"
             w == IF r.val THEN set_high(s, wr) ELSE set_low(s, wr)
         IN  [state |-> w.state, res |-> Ok(Unit),
              calls |-> <<Call("is_set_low", r), Call(fn, w.res)>>]

toggle_refuses_high(s, rd, wr) ==
    LET r == is_set_low(s, rd) IN
    IF IsErr(r)
    THEN [state |-> s, res |-> r, calls |-> <<Call("is_set_low", r)>>]
    ELSE IF r.val
         THEN LET w == set_high(s, wr) IN
              [state |-> w.state, res |-> w.res,
               calls |-> <<Call("is_set_low", r), Call("set_high", w.res)>>]
         ELSE [state |-> s, res |-> Err("E1"),
               calls |-> <<Call("is_set_low", r)>>]

toggle_verifies_after_write(s, rd, wr) ==
    LET r == is_set_low(s, rd) IN
    IF IsErr(r)
    THEN [state |-> s, res |-> r, calls |-> <<Call("is_set_low", r)>>]
    ELSE LET fn == IF r.val THEN "set_high" ELSE "set_low"
             w == IF r.val THEN set_high(s, wr) ELSE set_low(s, wr)
             v == is_set_high(w.state, NoFault)
         IN  IF IsErr(w.res)
             THEN [state |-> w.state, res |-> w.res,
                   calls |-> <<Call("is_set_low", r), Call(fn, w.res)>>]
             ELSE [state |-> w.state, res |-> w.res,
                   calls |-> <<Call("is_set_low", r), Call(fn, w.res),
                               Call("is_set_high", v)>>]

toggle(s, rd, wr) ==
    LET r == is_set_low(s, rd) IN
    IF IsErr(r)
    THEN [state |-> s, res |-> r, calls |-> <<Call("is_set_low", r)>>]
    ELSE IF r.val
         THEN LET w == set_high(s, wr) IN
              [state |-> w.state, res |-> w.res,
               calls |-> <<Call("is_set_low", r), Call("set_high", w.res)>>]
         ELSE LET w == set_low(s, wr) IN
              [state |-> w.state, res |-> w.res,
               calls |-> <<Call("is_set_low", r), Call("set_low", w.res)>>]

(***************************************************************************)
(* State.                                                                  *)
(*   state[p]    the pin's field `state` (TRUE = commanded high)           *)
(*   fallible[p] whether the pin's Error type has values                   *)
(*   init[p]     the field at construction                                 *)
(*   hist[p]     the &mut self calls made on p, in order                   *)
(*   last        the call that was made last, on any pin                   *)
(***************************************************************************)
Entry(op, ok, pre) == [op |-> op, ok |-> ok, pre |-> pre]

Last(p, op, pre, res, calls) ==
    [pin |-> p, op |-> op, pre |-> pre, res |-> res, calls |-> calls]

\* The pins that were constructed.
Live == DOMAIN state

RECURSIVE SumLen(_)
SumLen(ps) ==
    IF ps = {}
    THEN 0
    ELSE LET p == CHOOSE q \in ps : TRUE IN Len(hist[p]) + SumLen(ps \ {p})

OpsDone == SumLen(Live)

Budget == IF Cardinality(Live) = 1 THEN MaxOps ELSE MaxPairOps

Construct(pins) ==
    /\ state \in [pins -> BOOLEAN]
    /\ fallible \in [pins -> BOOLEAN]
    /\ init = state
    /\ hist = [p \in pins |-> <<>>]
    /\ last = Last("none", "new", FALSE, Ok(Unit), <<>>)

\* One pin, as in the documented example.
Init == Construct({"p1"})

\* Two pins, each owned and driven on its own.
InitPair == Construct(Pins)

SetLow(p, f) ==
    /\ OpsDone < Budget
    /\ LET w == set_low(state[p], f) IN
       /\ state' = [state EXCEPT ![p] = w.state]
       /\ hist' = [hist EXCEPT ![p] = Append(@, Entry("set_low", IsOk(w.res), state[p]))]
       /\ last' = Last(p, "set_low", state[p], w.res, <<Call("set_low", w.res)>>)
    /\ UNCHANGED <<fallible, init>>

\* Faulty variant of SetHigh: the level is stored in every pin.
SetHighShared(p, f) ==
    /\ OpsDone < Budget
    /\ LET w == set_high(state[p], f) IN
       /\ state' = [q \in Live |-> w.state]
       /\ hist' = [hist EXCEPT ![p] = Append(@, Entry("set_high", IsOk(w.res), state[p]))]
       /\ last' = Last(p, "set_high", state[p], w.res, <<Call("set_high", w.res)>>)
    /\ UNCHANGED <<fallible, init>>

SetHigh(p, f) ==
    /\ OpsDone < Budget
    /\ LET w == set_high(state[p], f) IN
       /\ state' = [state EXCEPT ![p] = w.state]
       /\ hist' = [hist EXCEPT ![p] = Append(@, Entry("set_high", IsOk(w.res), state[p]))]
       /\ last' = Last(p, "set_high", state[p], w.res, <<Call("set_high", w.res)>>)
    /\ UNCHANGED <<fallible, init>>

\* Faulty variant of IsSetLow: the read clears the field.
IsSetLowClears(p, f) ==
    /\ LET r == is_set_low(state[p], f) IN
       last' = Last(p, "is_set_low", state[p], r, <<Call("is_set_low", r)>>)
    /\ state' = [state EXCEPT ![p] = FALSE]
    /\ UNCHANGED <<fallible, init, hist>>

IsSetLow(p, f) ==
    /\ LET r == is_set_low(state[p], f) IN
       last' = Last(p, "is_set_low", state[p], r, <<Call("is_set_low", r)>>)
    /\ UNCHANGED <<state, fallible, init, hist>>

IsSetHigh(p, f) ==
    /\ LET r == is_set_high(state[p], f) IN
       last' = Last(p, "is_set_high", state[p], r, <<Call("is_set_high", r)>>)
    /\ UNCHANGED <<state, fallible, init, hist>>

Toggle(p, rd, wr) ==
    /\ OpsDone < Budget
    /\ LET t == toggle(state[p], rd, wr) IN
       /\ state' = [state EXCEPT ![p] = t.state]
       /\ hist' = [hist EXCEPT ![p] = Append(@, Entry("toggle", IsOk(t.res), state[p]))]
       /\ last' = Last(p, "toggle", state[p], t.res, t.calls)
    /\ UNCHANGED <<fallible, init>>

Next ==
    \E p \in Live :
        \E f \in Faults(fallible[p]) :
            \/ SetLow(p, f)
            \/ SetHigh(p, f)
            \/ IsSetLow(p, f)
            \/ IsSetHigh(p, f)
            \/ \E wr \in Faults(fallible[p]) : Toggle(p, f, wr)

Spec == Init /\ [][Next]_vars

SpecPair == InitPair /\ [][Next]_vars

(***************************************************************************)
(* Properties.                                                             *)
(***************************************************************************)
Writes == {"set_low", "set_high"}

Queries == {"is_set_low", "is_set_high"}

LastPinState == state[last.pin]

ToggleDone == last.op = "toggle"

\* What the queries report now on pin p when the driver does not fail.
ReadsHigh(p) == is_set_high(state[p], NoFault) = Ok(TRUE)
                /\ is_set_low(state[p], NoFault) = Ok(FALSE)

ReadsLow(p) == is_set_low(state[p], NoFault) = Ok(TRUE)
               /\ is_set_high(state[p], NoFault) = Ok(FALSE)

\* C1: after a toggle() that returned Ok, the commanded state is the
\* complement of the state before the call: from low the pin reads high
\* (is_set_high = true, is_set_low = false), from high it reads low.
C1_ToggleComplements ==
    (ToggleDone /\ IsOk(last.res)) =>
        /\ LastPinState = ~last.pre
        /\ (~last.pre => ReadsHigh(last.pin))
        /\ (last.pre => ReadsLow(last.pin))

C1_Witness ==
    /\ ToggleDone
    /\ IsOk(last.res)
    /\ last.pre = FALSE
    /\ ReadsHigh(last.pin)

\* The two latest &mut self calls on p are toggles that both returned Ok.
TwoOkToggles(p) ==
    LET h == hist[p]
        n == Len(h)
    IN  /\ n >= 2
        /\ h[n].op = "toggle" /\ h[n].ok
        /\ h[n - 1].op = "toggle" /\ h[n - 1].ok

\* C2: after two successful toggle() calls in a row on a pin, with no other
\* write between them, the commanded state is the one before the first.
C2_TwoTogglesRestore ==
    \A p \in Live :
        TwoOkToggles(p) => state[p] = hist[p][Len(hist[p]) - 1].pre

C2_Witness ==
    \E p \in Live :
        /\ TwoOkToggles(p)
        /\ hist[p][Len(hist[p]) - 1].pre = FALSE
        /\ ReadsLow(p)

\* C3: when the is_set_low() read that toggle() starts with fails, toggle()
\* makes no further call (no set_high, no set_low), the commanded state is
\* left as it was, and toggle() returns exactly the read's error.
C3_ReadErrorShortCircuits ==
    (ToggleDone /\ IsErr(last.calls[1].res)) =>
        /\ last.calls[1].fn = "is_set_low"
        /\ Len(last.calls) = 1
        /\ \A i \in 1..Len(last.calls) : last.calls[i].fn \notin Writes
        /\ LastPinState = last.pre
        /\ last.res = last.calls[1].res

C3_Witness ==
    /\ ToggleDone
    /\ last.calls[1] = Call("is_set_low", Err("E2"))
    /\ last.res = Err("E2")
    /\ last.pre = TRUE

\* C4: when the write toggle() selects fails, toggle() returns that write's
\* error unmodified, makes no second write (no retry, no rollback), and the
\* commanded state is unchanged, so the queries report what they did before.
C4_WriteErrorPropagates ==
    (ToggleDone /\ Len(last.calls) >= 2 /\ IsErr(last.calls[2].res)) =>
        /\ last.res = last.calls[2].res
        /\ Len(last.calls) = 2
        /\ LastPinState = last.pre
        /\ is_set_low(LastPinState, NoFault) = Ok(~last.pre)

C4_Witness ==
    /\ ToggleDone
    /\ last.pre = FALSE
    /\ Len(last.calls) = 2
    /\ last.calls[2] = Call("set_high", Err("E2"))
    /\ last.res = Err("E2")
    /\ ReadsLow(last.pin)

\* C5: after a successful set_high() the pin reads high (is_set_high true,
\* is_set_low false), after a successful set_low() it reads low, and after
\* every successful write, toggle() included, the two queries are
\* complements of each other.
C5_WriteThenRead ==
    (last.op \in Writes \cup {"toggle"} /\ IsOk(last.res)) =>
        /\ (last.op = "set_high" => ReadsHigh(last.pin))
        /\ (last.op = "set_low" => ReadsLow(last.pin))
        /\ is_set_high(LastPinState, NoFault).val
               = ~is_set_low(LastPinState, NoFault).val

C5_Witness ==
    /\ last.op = "set_high"
    /\ IsOk(last.res)
    /\ last.pre = FALSE
    /\ Len(hist[last.pin]) >= 2
    /\ ReadsHigh(last.pin)

\* C6: on a pin whose Error type is Infallible every call returns Ok, and
\* so does every call the derived toggle() makes and toggle() itself.
C6_InfallibleAlwaysOk ==
    (last.pin \in Live /\ ~fallible[last.pin]) =>
        /\ IsOk(last.res)
        /\ \A i \in 1..Len(last.calls) : IsOk(last.calls[i].res)

C6_Witness ==
    /\ last.pin \in Live
    /\ ~fallible[last.pin]
    /\ ToggleDone
    /\ last.pre = TRUE
    /\ IsOk(last.res)
    /\ Len(hist[last.pin]) >= 2

\* C7: a step that is an is_set_high() or is_set_low() call, whether it
\* returns Ok or Err, leaves every pin's commanded state and the record of
\* writes unchanged, so a toggle() made after it does what it would have
\* done before it.
C7_QueriesHaveNoEffect ==
    [][last'.op \in Queries =>
          /\ state' = state
          /\ hist' = hist
          /\ \A rd, wr \in {NoFault} \cup Errs :
                 toggle(state'[last'.pin], rd, wr) = toggle(last'.pre, rd, wr)
      ]_vars

C7_Witness ==
    /\ last.op = "is_set_low"
    /\ last.res = Ok(FALSE)
    /\ LastPinState = TRUE
    /\ Len(hist[last.pin]) >= 1

\* The state a pin reaches from s by its own &mut self calls h alone.
RECURSIVE Replay(_, _)
Replay(s, h) ==
    IF h = <<>>
    THEN s
    ELSE LET e == Head(h)
             s1 == IF ~e.ok THEN s
                   ELSE IF e.op = "set_high" THEN TRUE
                   ELSE IF e.op = "set_low" THEN FALSE
                   ELSE ~s
         IN  Replay(s1, Tail(h))

\* C8: a call on one pin, successful or failed, changes the commanded state
\* of no other pin, and each pin's state is the outcome of its own calls in
\* their order, whatever the interleaving with the other pin's calls.
C8_PinsIndependent ==
    /\ [](\A p \in Live : state[p] = Replay(init[p], hist[p]))
    /\ [][\A q \in Live :
             (state'[q] # state[q] \/ hist'[q] # hist[q]) => last'.pin = q]_vars

C8_Witness ==
    /\ Live = Pins
    /\ Len(hist["p1"]) = 1
    /\ Len(hist["p2"]) = 1
    /\ hist["p1"][1].ok
    /\ state["p1"] # init["p1"]
    /\ last.pin = "p2"
    /\ last.op = "toggle"
    /\ IsErr(last.res)
    /\ state["p2"] = init["p2"]

\* C9: one toggle() call makes exactly one is_set_low() call first and,
\* only when it returned Ok, exactly one write after it: set_high() when
\* the read returned true, set_low() otherwise.  It makes no is_set_high()
\* call and nothing follows the write.
C9_ToggleCallOrder ==
    ToggleDone =>
        LET c == last.calls IN
        /\ Len(c) \in {1, 2}
        /\ c[1].fn = "is_set_low"
        /\ (IsErr(c[1].res) => Len(c) = 1)
        /\ (c[1].res = Ok(TRUE) => Len(c) = 2 /\ c[2].fn = "set_high")
        /\ (c[1].res = Ok(FALSE) => Len(c) = 2 /\ c[2].fn = "set_low")
        /\ \A i \in 1..Len(c) : c[i].fn # "is_set_high"
        /\ Cardinality({i \in 1..Len(c) : c[i].fn \in Writes}) <= 1

C9_Witness ==
    /\ ToggleDone
    /\ last.pre = TRUE
    /\ Len(last.calls) = 2
    /\ last.calls[1] = Call("is_set_low", Ok(FALSE))
    /\ last.calls[2] = Call("set_low", Ok(Unit))
    /\ LastPinState = FALSE

OnlyToggles(h) == \A i \in 1..Len(h) : h[i].op = "toggle"

OkCount(h) == Cardinality({i \in 1..Len(h) : h[i].ok})

\* C10: on a pin that has only been toggled since construction in state S,
\* the commanded state is S when the number of toggle() calls that returned
\* Ok is even and the complement of S when it is odd; calls that returned
\* Err do not count.
C10_ToggleParity ==
    \A p \in Live :
        OnlyToggles(hist[p]) =>
            state[p] = (IF OkCount(hist[p]) % 2 = 0 THEN init[p] ELSE ~init[p])

C10_Witness ==
    \E p \in Live :
        /\ OnlyToggles(hist[p])
        /\ Len(hist[p]) = 3
        /\ OkCount(hist[p]) = 2
        /\ ~hist[p][2].ok
        /\ state[p] = init[p]

====
